---- MODULE Spec2Model ----
(***************************************************************************)
(* Lake surface heat balance: the flux formulas of lake_sheatbalance.py,   *)
(* the heat-content loop of main.heat_content and the budget closure and   *)
(* flow inference of main.main (lines 57-76).                              *)
(*                                                                         *)
(* Numbers.  The program computes with IEEE binary64 values held in pandas *)
(* Series.  Here a number is a decimal floating-point value: NaN, +-Inf or *)
(* m * 10^e with a mantissa of at most four significant digits, every      *)
(* operation truncating its exact result towards zero.  NaN, the           *)
(* infinities and division by zero follow IEEE 754 as numpy applies them   *)
(* to arrays (a warning, never an exception).  Signed zeros and the        *)
(* exponent range (overflow, underflow) are not modelled.  The inputs the  *)
(* specifications draw are exactly representable, so equalities between    *)
(* results are equalities of real numbers wherever no division or          *)
(* transcendental function is involved.                                    *)
(***************************************************************************)
EXTENDS Integers, Sequences, FiniteSets, TLC

VARIABLES
    pc,          \* the position of the component being run
    fn,          \* Flux Model: the function called
    args,        \* Flux Model: its argument Series, in parameter order
    meteo_f1,    \* main line 38: meteo_data["f1"]
    res,         \* Flux Model: the Series returned
    index,       \* the timestamps (seconds), shared by every Series of a run
    temp_data,   \* heat_content: the caller's temperature table
    depth_data,  \* heat_content: the caller's depth table
    bath_data,   \* the bathymetric curve, rows of (Depth_m, Area_m2)
    temp_in,     \* the temperature table as it was when heat_content was called
    depth_in,    \* the depth table as it was when heat_content was called
    bath_in,     \* the bathymetric curve as it was when heat_content was called
    i,           \* heat_content: the loop position
    data_p,      \* heat_content: the profile of the current row
    heatc_data,  \* heat_content: the list built / main: the heat content Series
    hnet,        \* main: the net surface flux Series
    temp0max,    \* main line 62: temp_data["0"].max()
    dhdt,        \* main line 58
    dhw,         \* main line 59
    flow_temp,   \* main lines 61-65: wtemp
    flow_heat,   \* main lines 66-70: wheat
    flow         \* main line 76

vars == <<pc, fn, args, meteo_f1, res, index, temp_data, depth_data, bath_data,
          temp_in, depth_in, bath_in, i, data_p, heatc_data, hnet, temp0max,
          dhdt, dhw, flow_temp, flow_heat, flow>>

\* the number of timestamps of the Series of a Flux Model call
MaxFluxT == 2

\* the number of rows (timestamps) of the tables given to heat_content
MaxRows == 2

\* the number of timestamps of a budget closure run
MaxT == 3

(***************************************************************************)
(* Decimal floating point                                                  *)
(***************************************************************************)
MantLimit == 10 ^ 4

Abs(n) == IF n < 0 THEN -n ELSE n

Sgn(n) == IF n < 0 THEN -1 ELSE IF n = 0 THEN 0 ELSE 1

\* n / d truncated towards zero (d > 0)
TruncDiv(n, d) == Sgn(n) * (Abs(n) \div d)

NaN == [cls |-> "nan", m |-> 0, e |-> 0]

PInf == [cls |-> "inf", m |-> 1, e |-> 0]

NInf == [cls |-> "inf", m |-> -1, e |-> 0]

InfOf(s) == IF s < 0 THEN NInf ELSE PInf

RECURSIVE Norm(_, _)
\* the canonical finite value m * 10^e: mantissa below MantLimit (low digits
\* truncated), no trailing zero digit, zero as 0 * 10^0
Norm(m, e) ==
    IF m = 0 THEN [cls |-> "fin", m |-> 0, e |-> 0]
    ELSE IF Abs(m) >= MantLimit THEN Norm(TruncDiv(m, 10), e + 1)
    ELSE IF m % 10 = 0 THEN Norm(TruncDiv(m, 10), e + 1)
    ELSE [cls |-> "fin", m |-> m, e |-> e]

\* the decimal literal m * 10^e
F(m, e) == Norm(m, e)

\* an integer literal
I(n) == Norm(n, 0)

IsNaN(x) == x.cls = "nan"

IsInf(x) == x.cls = "inf"

IsFin(x) == x.cls = "fin"

Sign(x) == Sgn(x.m)

FNeg(x) == [x EXCEPT !.m = -x.m]

\* a + b for finite a, b with a.e >= b.e
AddAligned(a, b) ==
    LET diff == a.e - b.e
        g    == IF diff < 5 THEN diff ELSE 5
        big  == a.m * (10 ^ g)
        sml  == IF diff - g >= 4 THEN 0 ELSE TruncDiv(b.m, 10 ^ (diff - g))
    IN  Norm(big + sml, a.e - g)

FAdd(a, b) ==
    IF IsNaN(a) \/ IsNaN(b) THEN NaN
    ELSE IF IsInf(a) /\ IsInf(b) THEN (IF a.m = b.m THEN a ELSE NaN)
    ELSE IF IsInf(a) THEN a
    ELSE IF IsInf(b) THEN b
    ELSE IF a.m = 0 THEN b
    ELSE IF b.m = 0 THEN a
    ELSE IF a.e >= b.e THEN AddAligned(a, b)
    ELSE AddAligned(b, a)

FSub(a, b) == FAdd(a, FNeg(b))

FMul(a, b) ==
    IF IsNaN(a) \/ IsNaN(b) THEN NaN
    ELSE IF IsInf(a) \/ IsInf(b)
         THEN (IF a.m = 0 \/ b.m = 0 THEN NaN ELSE InfOf(Sgn(a.m) * Sgn(b.m)))
    ELSE Norm(a.m * b.m, a.e + b.e)

FDiv(a, b) ==
    IF IsNaN(a) \/ IsNaN(b) THEN NaN
    ELSE IF IsInf(a) THEN (IF IsInf(b) THEN NaN
                           ELSE InfOf(a.m * (IF b.m < 0 THEN -1 ELSE 1)))
    ELSE IF IsInf(b) THEN I(0)
    ELSE IF b.m = 0 THEN (IF a.m = 0 THEN NaN ELSE InfOf(a.m))
    ELSE Norm(Sgn(a.m) * Sgn(b.m) * ((Abs(a.m) * (10 ^ 5)) \div Abs(b.m)),
              a.e - b.e - 5)

\* a > b as numpy compares: false when either side is NaN
FGt(a, b) ==
    /\ ~IsNaN(a)
    /\ ~IsNaN(b)
    /\ a # b
    /\ Sign(FSub(a, b)) = 1

FLe(a, b) == ~IsNaN(a) /\ ~IsNaN(b) /\ ~FGt(a, b)

\* the largest defined value of a series, NaN when none is defined
\* (pandas Series.max() skips NaN)
RECURSIVE MaxFrom(_, _, _)
MaxFrom(s, k, best) ==
    IF k > Len(s) THEN best
    ELSE MaxFrom(s, k + 1,
                 IF IsNaN(s[k]) THEN best
                 ELSE IF IsNaN(best) \/ FGt(s[k], best) THEN s[k]
                 ELSE best)

SeriesMax(s) == MaxFrom(s, 1, NaN)

(***************************************************************************)
(* numpy functions the formulas call.  np.exp is evaluated by halving the  *)
(* argument down to |x| <= 1/2, a degree-4 Taylor polynomial there and     *)
(* squaring back; x ** (1/7) by 24 Newton steps    from 1.  Both keep      *)
(* numpy's special cases: NaN in, NaN out; exp(-Inf) = 0; a negative base  *)
(* to a fractional power is NaN.                                           *)
(***************************************************************************)
RECURSIVE ExpFin(_)
ExpFin(x) ==
    IF FGt(x, F(5, -1)) \/ FGt(F(-5, -1), x)
    THEN LET h == ExpFin(FDiv(x, I(2))) IN FMul(h, h)
    ELSE LET x2 == FMul(x, x)
             x3 == FMul(x2, x)
             x4 == FMul(x3, x)
         IN  FAdd(FAdd(FAdd(FAdd(I(1), x), FDiv(x2, I(2))), FDiv(x3, I(6))),
                  FDiv(x4, I(24)))

np_exp(x) ==
    IF IsNaN(x) THEN NaN
    ELSE IF IsInf(x) THEN (IF x.m > 0 THEN PInf ELSE I(0))
    ELSE ExpFin(x)

RECURSIVE Root7From(_, _, _)
Root7From(x, y, k) ==
    IF k = 0 \/ IsNaN(y) THEN y
    ELSE LET y2 == FMul(y, y)
             y6 == FMul(FMul(y2, y2), y2)
             yn == FDiv(FAdd(FMul(I(6), y), FDiv(x, y6)), I(7))
         IN  Root7From(x, yn, k - 1)

\* x ** (1/7)
pow_1_7(x) ==
    IF IsNaN(x) THEN NaN
    ELSE IF x.m < 0 THEN NaN
    ELSE IF x.m = 0 THEN I(0)
    ELSE IF IsInf(x) THEN PInf
    ELSE Root7From(x, I(1), 24)

\* x ** 2 and x ** 4
pow_2(x) == FMul(x, x)

pow_4(x) == FMul(FMul(x, x), FMul(x, x))

(***************************************************************************)
(* lake_sheatbalance.py: the flux formulas, each over aligned Series       *)
(* (sequences indexed by timestamp position)                               *)
(***************************************************************************)
atm_emmissivity(temp, cc, ew) ==
    LET A1 == F(98, -2)
        A2 == F(17, -2)
        A3 == F(124, -2)
        atemp_k == [t \in DOMAIN temp |-> FAdd(temp[t], F(27315, -2))]
    IN  [t \in DOMAIN temp |->
            FMul(FMul(FMul(A1, FAdd(I(1), FMul(A2, pow_2(cc[t])))), A3),
                 pow_1_7(FDiv(ew[t], atemp_k[t])))]

swrad_in_ge(rad, albedo) ==
    LET rad_out0 == [t \in DOMAIN rad |-> FMul(I(0), rad[t])]
        mask     == [t \in DOMAIN rad |-> FGt(rad[t], I(5)) \/ rad[t] = I(5)]
        rad_out  == [t \in DOMAIN rad |->
                        IF mask[t] THEN FMul(rad[t], albedo[t]) ELSE rad_out0[t]]
    IN  [t \in DOMAIN rad |-> FSub(rad[t], rad_out[t])]

\* rad_out = 0*rad.copy(); rad_out.loc[rad > 5] = rad.loc[rad>5] * albedo.loc[rad>5];
\* hs = rad - rad_out
swrad_in(rad, albedo) ==
    LET rad_out0 == [t \in DOMAIN rad |-> FMul(I(0), rad[t])]
        mask     == [t \in DOMAIN rad |-> FGt(rad[t], I(5))]
        rad_out  == [t \in DOMAIN rad |->
                        IF mask[t] THEN FMul(rad[t], albedo[t]) ELSE rad_out0[t]]
    IN  [t \in DOMAIN rad |-> FSub(rad[t], rad_out[t])]

absorved_lw(temp, emi) ==
    LET A1 == F(3, -2)
        sigma == F(567, -10)
        atemp_k == [t \in DOMAIN temp |-> FAdd(temp[t], F(27315, -2))]
    IN  [t \in DOMAIN temp |->
            FMul(FMul(FMul(FSub(I(1), A1), emi[t]), sigma), pow_4(atemp_k[t]))]

emmited_lw(wtemp) ==
    LET A1 == F(972, -3)
        sigma == F(567, -10)
        wtemp_k == [t \in DOMAIN wtemp |-> FAdd(wtemp[t], F(27315, -2))]
    IN  [t \in DOMAIN wtemp |-> FMul(FMul(FNeg(A1), sigma), pow_4(wtemp_k[t]))]

sat_vaporpress(temp) ==
    LET A1 == F(6112, -3)
        A2 == F(1762, -2)
        A3 == F(24312, -2)
    IN  [t \in DOMAIN temp |->
            FMul(A1, np_exp(FDiv(FMul(A2, temp[t]), FAdd(A3, temp[t]))))]

transfer_function(wind10, wtemp, temp) ==
    LET A1 == F(48, -1)
        A2 == F(198, -2)
        A3 == F(28, -2)
    IN  [t \in DOMAIN wind10 |->
            FAdd(FAdd(A1, FMul(A2, wind10[t])),
                 FMul(A3, FSub(wtemp[t], temp[t])))]

latent_heat_nosign(f1, ew, ea) ==
    [t \in DOMAIN f1 |-> FMul(f1[t], FSub(ew[t], ea[t]))]

\* he = -f1 * (ew - ea)
latent_heat(f1, ew, ea) ==
    [t \in DOMAIN f1 |-> FMul(FNeg(f1[t]), FSub(ew[t], ea[t]))]

\* es = sat_vaporpress(temp); ew = rh * es/100
vapor_pressure(temp, rh) ==
    LET es == sat_vaporpress(temp)
    IN  [t \in DOMAIN temp |-> FDiv(FMul(rh[t], es[t]), I(100))]

psychrometric_constant(airp) ==
    LET CP == I(1005)
        LV == F(247, 4)
        MV == F(622, -3)
    IN  [t \in DOMAIN airp |-> FDiv(FMul(CP, airp[t]), FMul(LV, MV))]

\* hc = -psy * f1 * (wtemp - temp)
sensible_heat(psy, f1, wtemp, temp) ==
    [t \in DOMAIN psy |->
        FMul(FMul(FNeg(psy[t]), f1[t]), FSub(wtemp[t], temp[t]))]

\* a sum that skips undefined terms
FAddSkipNaN(a, b) == IF IsNaN(a) THEN b ELSE IF IsNaN(b) THEN a ELSE FAdd(a, b)

heat_balance_nansum(hs, ha, hw, he, hc) ==
    [t \in DOMAIN hs |->
        FAddSkipNaN(FAddSkipNaN(FAddSkipNaN(FAddSkipNaN(hs[t], ha[t]), hw[t]),
                                he[t]), hc[t])]

\* hnet = hs + ha + hw + he + hc
heat_balance(hs, ha, hw, he, hc) ==
    [t \in DOMAIN hs |->
        FAdd(FAdd(FAdd(FAdd(hs[t], ha[t]), hw[t]), he[t]), hc[t])]

(***************************************************************************)
(* Flux Model: one call of one function on Series of MaxT timestamps       *)
(***************************************************************************)
SeriesOf(V) == [1..MaxFluxT -> V]

TempVals == {NaN, I(10), I(-300)}

CloudVals == {NaN, F(5, -1)}

VaporVals == {NaN, I(12)}

RadVals == {NaN, I(-2), I(5), I(6), I(200)}

AlbedoVals == {NaN, I(0), F(1, -1), I(1)}

EmiVals == {NaN, F(8, -1)}

WaterTempVals == {NaN, I(0), I(8)}

AirTempVals == {NaN, I(10), I(30)}

WindVals == {NaN, I(0), I(2)}

RhVals == {NaN, I(80), I(100)}

PressVals == {NaN, I(850)}

TransferVals == {NaN, F(48, -1), F(-8, -1)}

ActualVaporVals == {NaN, I(9), I(15)}

PsyVals == {NaN, F(55, -2)}

FluxVals == {NaN, I(-3)}

FluxFns == {"atm_emmissivity", "swrad_in", "absorved_lw", "emmited_lw",
            "sat_vaporpress", "transfer_function", "latent_heat",
            "vapor_pressure", "psychrometric_constant", "sensible_heat",
            "heat_balance"}

\* the variables a Flux Model call does not use
NoHeat ==
    /\ index = <<>>
    /\ temp_data = <<>>
    /\ depth_data = <<>>
    /\ bath_data = <<>>
    /\ temp_in = <<>>
    /\ depth_in = <<>>
    /\ bath_in = <<>>
    /\ i = 0
    /\ data_p = <<>>
    /\ heatc_data = <<>>

NoBudget ==
    /\ hnet = <<>>
    /\ temp0max = NaN
    /\ dhdt = <<>>
    /\ dhw = <<>>
    /\ flow_temp = <<>>
    /\ flow_heat = <<>>
    /\ flow = <<>>

NoFlux ==
    /\ fn = ""
    /\ args = <<>>
    /\ meteo_f1 = <<>>
    /\ res = <<>>

InitFlux ==
    /\ pc = "call"
    /\ meteo_f1 = <<>>
    /\ res = <<>>
    /\ NoHeat
    /\ NoBudget
    /\ \/ /\ fn = "atm_emmissivity"
          /\ \E temp \in SeriesOf(TempVals), cc \in SeriesOf(CloudVals),
                ew \in SeriesOf(VaporVals) : args = <<temp, cc, ew>>
       \/ /\ fn = "swrad_in"
          /\ \E rad \in SeriesOf(RadVals), albedo \in SeriesOf(AlbedoVals) :
                args = <<rad, albedo>>
       \/ /\ fn = "absorved_lw"
          /\ \E temp \in SeriesOf(TempVals), emi \in SeriesOf(EmiVals) :
                args = <<temp, emi>>
       \/ /\ fn = "emmited_lw"
          /\ \E wt \in SeriesOf(WaterTempVals) : args = <<wt>>
       \/ /\ fn = "sat_vaporpress"
          /\ \E temp \in SeriesOf(TempVals) : args = <<temp>>
       \/ /\ fn = "transfer_function"
          /\ \E wind10 \in SeriesOf(WindVals), wt \in SeriesOf(WaterTempVals),
                temp \in SeriesOf(AirTempVals) : args = <<wind10, wt, temp>>
       \/ /\ fn = "latent_heat"
          /\ \E tf \in SeriesOf(TransferVals), ew \in SeriesOf(VaporVals),
                ea \in SeriesOf(ActualVaporVals) : args = <<tf, ew, ea>>
       \/ /\ fn = "vapor_pressure"
          /\ \E temp \in SeriesOf(TempVals), rh \in SeriesOf(RhVals) :
                args = <<temp, rh>>
       \/ /\ fn = "psychrometric_constant"
          /\ \E airp \in SeriesOf(PressVals) : args = <<airp>>
       \/ /\ fn = "sensible_heat"
          /\ \E psy \in SeriesOf(PsyVals), tf \in SeriesOf(TransferVals \ {F(-8, -1)}),
                wt \in SeriesOf(WaterTempVals \ {I(0)}),
                temp \in SeriesOf(AirTempVals \ {I(30)}) :
                args = <<psy, tf, wt, temp>>
       \/ /\ fn = "heat_balance"
          /\ \E hs \in SeriesOf(FluxVals), ha \in SeriesOf(FluxVals),
                hw \in SeriesOf(FluxVals), he \in SeriesOf(FluxVals),
                hc \in SeriesOf(FluxVals) : args = <<hs, ha, hw, he, hc>>
       \* main lines 38-45: he = latent_heat(transfer_function(...), ew, ea)
       \/ /\ fn = "main_he"
          /\ \E wind10 \in SeriesOf(WindVals \ {NaN}),
                wt \in SeriesOf(WaterTempVals \ {NaN}),
                temp \in SeriesOf(AirTempVals \ {NaN}),
                ew \in SeriesOf(VaporVals \ {NaN}),
                ea \in SeriesOf(ActualVaporVals \ {NaN}) :
                args = <<wind10, wt, temp, ew, ea>>

\* the function named f applied to the argument Series a
Apply(f, a) ==
    CASE f = "atm_emmissivity" -> atm_emmissivity(a[1], a[2], a[3])
      [] f = "swrad_in" -> swrad_in(a[1], a[2])
      [] f = "absorved_lw" -> absorved_lw(a[1], a[2])
      [] f = "emmited_lw" -> emmited_lw(a[1])
      [] f = "sat_vaporpress" -> sat_vaporpress(a[1])
      [] f = "transfer_function" -> transfer_function(a[1], a[2], a[3])
      [] f = "latent_heat" -> latent_heat(a[1], a[2], a[3])
      [] f = "vapor_pressure" -> vapor_pressure(a[1], a[2])
      [] f = "psychrometric_constant" -> psychrometric_constant(a[1])
      [] f = "sensible_heat" -> sensible_heat(a[1], a[2], a[3], a[4])
      [] f = "heat_balance" -> heat_balance(a[1], a[2], a[3], a[4], a[5])

\* what a Flux Model step leaves alone
HeatBudgetUnchanged ==
    UNCHANGED <<index, temp_data, depth_data, bath_data, temp_in, depth_in,
                bath_in, i, data_p, heatc_data, hnet, temp0max, dhdt, dhw,
                flow_temp, flow_heat, flow>>

\* a call of f that returns r: a new Series; the caller's argument Series
\* stay as they were (every formula builds new Series, and swrad_in writes
\* only to its own rad_out)
Returns(f, r) ==
    /\ pc = "call"
    /\ fn = f
    /\ res' = r
    /\ pc' = "done"
    /\ UNCHANGED <<fn, args, meteo_f1>>
    /\ HeatBudgetUnchanged

Call_atm_emmissivity ==
    Returns("atm_emmissivity", atm_emmissivity(args[1], args[2], args[3]))

Call_swrad_in ==
    Returns("swrad_in", swrad_in(args[1], args[2]))

Call_absorved_lw ==
    Returns("absorved_lw", absorved_lw(args[1], args[2]))

Call_emmited_lw ==
    Returns("emmited_lw", emmited_lw(args[1]))

Call_sat_vaporpress ==
    Returns("sat_vaporpress", sat_vaporpress(args[1]))

Call_transfer_function ==
    Returns("transfer_function", transfer_function(args[1], args[2], args[3]))

Call_latent_heat ==
    Returns("latent_heat", latent_heat(args[1], args[2], args[3]))

Call_vapor_pressure ==
    Returns("vapor_pressure", vapor_pressure(args[1], args[2]))

Call_psychrometric_constant ==
    Returns("psychrometric_constant", psychrometric_constant(args[1]))

Call_sensible_heat ==
    Returns("sensible_heat", 
            sensible_heat(args[1], args[2], args[3], args[4]))

Call_heat_balance ==
    Returns("heat_balance", 
            heat_balance(args[1], args[2], args[3], args[4], args[5]))

\* main lines 38-40
MainTransfer ==
    /\ pc = "call"
    /\ fn = "main_he"
    /\ meteo_f1' = transfer_function(args[1], args[2], args[3])
    /\ pc' = "l45"
    /\ UNCHANGED <<fn, args, res>>
    /\ HeatBudgetUnchanged

\* main line 45
MainLatent ==
    /\ pc = "l45"
    /\ res' = latent_heat(meteo_f1, args[4], args[5])
    /\ pc' = "done"
    /\ UNCHANGED <<fn, args, meteo_f1>>
    /\ HeatBudgetUnchanged

NextFlux ==
    \/ Call_atm_emmissivity
    \/ Call_swrad_in
    \/ Call_absorved_lw
    \/ Call_emmited_lw
    \/ Call_sat_vaporpress
    \/ Call_transfer_function
    \/ Call_latent_heat
    \/ Call_vapor_pressure
    \/ Call_psychrometric_constant
    \/ Call_sensible_heat
    \/ Call_heat_balance
    \/ MainTransfer
    \/ MainLatent

SpecFlux == InitFlux /\ [][NextFlux]_vars

(***************************************************************************)
(* main.heat_content.  A DataFrame is its column names in order and one    *)
(* Series per column; its rows are the positions of index.                 *)
(***************************************************************************)
ColumnSet(df) == {df.columns[k] : k \in 1..Len(df.columns)}

\* df[name] = series: a new column goes last, an existing one is overwritten
SetCol(df, name, series) ==
    IF name \in ColumnSet(df)
    THEN [df EXCEPT !.col[name] = series]
    ELSE [columns |-> Append(df.columns, name),
          col |-> [c \in ColumnSet(df) \cup {name} |->
                      IF c = name THEN series ELSE df.col[c]]]

\* df.iloc[r].values
RowValues(df, r) == [k \in 1..Len(df.columns) |-> df.col[df.columns[k]][r]]

\* data_p = pd.DataFrame({"Depth_m": depth row, "Temp_C": temperature row})
Profile(depths, temps) ==
    [k \in 1..Len(temps) |-> [Depth_m |-> depths[k], Temp_C |-> temps[k]]]

\* data_p.Temp_C.isna().all()
AllTempNaN(p) == \A k \in 1..Len(p) : IsNaN(p[k].Temp_C)

\* pylake.heat_content is a library outside the repository: its result for
\* a profile it is given is any of these (a number, or NaN)
PylakeHeatContent == {NaN, I(36000)}

Sensors == <<"0.45", "1.5">>

SensorTempVals == {NaN, I(4), I(6)}

SensorDepth == [c \in {"0.45", "1.5"} |-> IF c = "0.45" THEN F(45, -2) ELSE F(15, -1)]

Row(d, a) == [Depth_m |-> d, Area_m2 |-> a]

\* bathymetric curves: depth non-decreasing from 0, area non-increasing
BathCurves ==
    { <<Row(I(0), I(10000)), Row(I(1), I(8000)), Row(I(2), I(5000))>>,
      <<Row(I(0), I(500)), Row(I(3), I(500))>> }

HourlyIndex(n) == [t \in 1..n |-> 3600 * (t - 1)]

InitHeat ==
    /\ pc = "l105"
    /\ NoFlux
    /\ NoBudget
    /\ index = HourlyIndex(MaxRows)
    /\ \E v \in [{"0.45", "1.5"} -> [1..MaxRows -> SensorTempVals]] :
          temp_data = [columns |-> Sensors, col |-> v]
    /\ depth_data = [columns |-> Sensors,
                     col |-> [c \in {"0.45", "1.5"} |->
                                 [t \in 1..MaxRows |-> SensorDepth[c]]]]
    /\ bath_data \in BathCurves
    /\ temp_in = temp_data
    /\ depth_in = depth_data
    /\ bath_in = bath_data
    /\ i = 1
    /\ data_p = <<>>
    /\ heatc_data = <<>>

ExtendTempDeepest(td) == SetCol(td, "0", td.col["1.5"])

\* line 105: temp_data["0"] = temp_data["0.45"]
ExtendTemp(td) == SetCol(td, "0", td.col["0.45"])

\* lines 106-107: depth_data["0"] = 0;
\* depth_data.loc[temp_data["0.45"].isna(), "0"] = np.nan
ExtendDepth(dd, td) ==
    LET zero == SetCol(dd, "0", [t \in DOMAIN td.col["0.45"] |-> I(0)])
    IN  [zero EXCEPT !.col["0"] =
            [t \in DOMAIN @ |-> IF IsNaN(td.col["0.45"][t]) THEN NaN ELSE @[t]]]

\* lines 104-107, on the caller's own tables
HeatExtend ==
    /\ pc = "l105"
    /\ temp_data' = ExtendTemp(temp_data)
    /\ depth_data' = ExtendDepth(depth_data, temp_data')
    /\ heatc_data' = <<>>
    /\ i' = 1
    /\ pc' = "l108"
    /\ UNCHANGED <<fn, args, meteo_f1, res, index, bath_data, temp_in, depth_in,
                   bath_in, data_p, hnet, temp0max, dhdt, dhw, flow_temp,
                   flow_heat, flow>>

RowHeatZero(p) == IF AllTempNaN(p) THEN {I(0)} ELSE PylakeHeatContent

\* the value appended for a profile: lines 112-121
RowHeat(p) == IF AllTempNaN(p) THEN {NaN} ELSE PylakeHeatContent

\* lines 108-121: one pass of the loop
HeatRow ==
    /\ pc = "l108"
    /\ i <= Len(index)
    /\ data_p' = Profile(RowValues(depth_data, i), RowValues(temp_data, i))
    /\ \E hct \in RowHeat(data_p') : heatc_data' = Append(heatc_data, hct)
    /\ i' = i + 1
    /\ UNCHANGED <<pc, fn, args, meteo_f1, res, index, temp_data, depth_data,
                   bath_data, temp_in, depth_in, bath_in, hnet, temp0max, dhdt,
                   dhw, flow_temp, flow_heat, flow>>

\* lines 123-124: the Series over temp_data.index is returned
HeatReturn ==
    /\ pc = "l108"
    /\ i > Len(index)
    /\ pc' = "done"
    /\ UNCHANGED <<fn, args, meteo_f1, res, index, temp_data, depth_data,
                   bath_data, temp_in, depth_in, bath_in, i, data_p, heatc_data,
                   hnet, temp0max, dhdt, dhw, flow_temp, flow_heat, flow>>

NextHeat == HeatExtend \/ HeatRow \/ HeatReturn

SpecHeat == InitHeat /\ [][NextHeat]_vars

(***************************************************************************)
(* main lines 57-76: budget closure and flow inference, on a heat content  *)
(* Series and a net flux Series over the same index                        *)
(***************************************************************************)
DiffKeepFirst(s) == [t \in DOMAIN s |-> IF t = 1 THEN NaN ELSE FSub(s[t], s[1])]

\* Series.diff(): undefined at the first position
Diff(s) == [t \in DOMAIN s |-> IF t = 1 THEN NaN ELSE FSub(s[t], s[t - 1])]

HourStep(ix) == [t \in DOMAIN ix |-> IF t = 1 THEN NaN ELSE I(3600)]

\* index.to_series().diff().dt.total_seconds(): the seconds since the
\* previous timestamp, undefined (NaT) at the first position
ElapsedSeconds(ix) ==
    [t \in DOMAIN ix |-> IF t = 1 THEN NaN ELSE I(ix[t] - ix[t - 1])]

\* line 58: dhdt = heatc_data.diff() / <elapsed seconds>
TimeDerivative(h, ix) ==
    LET dh == Diff(h)
        dt == ElapsedSeconds(ix)
    IN  [t \in DOMAIN h |-> FDiv(dh[t], dt[t])]

\* bath_data.Area_m2
AreaColumn(bath) == [k \in 1..Len(bath) |-> bath[k].Area_m2]

RECURSIVE MinFrom(_, _, _)
MinFrom(s, k, best) ==
    IF k > Len(s) THEN best
    ELSE MinFrom(s, k + 1,
                 IF IsNaN(s[k]) THEN best
                 ELSE IF IsNaN(best) \/ FGt(best, s[k]) THEN s[k]
                 ELSE best)

AreaMin(bath) == MinFrom(AreaColumn(bath), 1, NaN)

\* bath_data.Area_m2.max()
AreaMax(bath) == SeriesMax(AreaColumn(bath))

\* line 59: dhw = -(dhdt - hnet) * bath_data.Area_m2.max()
ResidualPower(d, net, bath) ==
    [t \in DOMAIN d |-> FMul(FNeg(FSub(d[t], net[t])), AreaMax(bath))]

\* np.linspace(start, stop, num): arange(num) * step + start, the last
\* sample set to stop
linspace(start, stop, num) ==
    LET step == FDiv(FSub(stop, start), I(num - 1))
    IN  [t \in 1..num |->
            IF num > 1 /\ t = num THEN stop
            ELSE IF num = 1 THEN start
            ELSE FAdd(FMul(I(t - 1), step), start)]

\* pylake.dens0 is a library outside the repository (the density of water,
\* kg/m3, at a temperature); here the parabola about 4 degC,
\* 1000 - 0.007 (T - 4)^2, which like any density is positive over the
\* temperatures of a run and undefined for an undefined temperature
dens0(temp) ==
    [t \in DOMAIN temp |->
        FSub(I(1000), FMul(F(7, -3), pow_2(FSub(temp[t], I(4)))))]

\* lines 66-70: wheat = pylake.dens0(wtemp) * 4186 * wtemp
FlowHeat(wt) ==
    LET rho == dens0(wt)
    IN  [t \in DOMAIN wt |-> FMul(FMul(rho[t], I(4186)), wt[t])]

GuardedDiv(a, b) == IF IsFin(b) /\ b.m = 0 THEN I(0) ELSE FDiv(a, b)

FlowClamped(r, c) == [t \in DOMAIN r |-> GuardedDiv(r[t], c[t])]

\* line 76: flow = dhw.values / wheat.values
Flow(r, c) == [t \in DOMAIN r |-> FDiv(r[t], c[t])]

HeatVals == {NaN, I(36000), I(72000)}

NetFluxVals == {I(0), I(10)}

FlowTempStops == {NaN, I(-4), I(-2), I(6)}

\* timestamps one hour apart, and timestamps alternately one and two hours
\* apart
UnevenIndex(n) == [t \in 1..n |-> 3600 * (t - 1) + 3600 * ((t - 1) \div 2)]

InitBudget ==
    /\ pc = "l58"
    /\ NoFlux
    /\ index \in {HourlyIndex(MaxT), UnevenIndex(MaxT)}
    /\ heatc_data \in [1..MaxT -> HeatVals]
    /\ hnet \in [1..MaxT -> NetFluxVals]
    /\ bath_data \in BathCurves
    /\ temp0max \in FlowTempStops
    /\ temp_data = <<>>
    /\ depth_data = <<>>
    /\ temp_in = <<>>
    /\ depth_in = <<>>
    /\ bath_in = <<>>
    /\ i = 0
    /\ data_p = <<>>
    /\ dhdt = <<>>
    /\ dhw = <<>>
    /\ flow_temp = <<>>
    /\ flow_heat = <<>>
    /\ flow = <<>>

Line58 ==
    /\ pc = "l58"
    /\ dhdt' = TimeDerivative(heatc_data, index)
    /\ pc' = "l59"
    /\ UNCHANGED <<fn, args, meteo_f1, res, index, temp_data, depth_data,
                   bath_data, temp_in, depth_in, bath_in, i, data_p, heatc_data,
                   hnet, temp0max, dhw, flow_temp, flow_heat, flow>>

Line59 ==
    /\ pc = "l59"
    /\ dhw' = ResidualPower(dhdt, hnet, bath_data)
    /\ pc' = "l61"
    /\ UNCHANGED <<fn, args, meteo_f1, res, index, temp_data, depth_data,
                   bath_data, temp_in, depth_in, bath_in, i, data_p, heatc_data,
                   hnet, temp0max, dhdt, flow_temp, flow_heat, flow>>

\* lines 61-65: wtemp = np.linspace(2, temp_data["0"].max(), len(dhw))
Line61 ==
    /\ pc = "l61"
    /\ flow_temp' = linspace(I(2), temp0max, Len(dhw))
    /\ pc' = "l66"
    /\ UNCHANGED <<fn, args, meteo_f1, res, index, temp_data, depth_data,
                   bath_data, temp_in, depth_in, bath_in, i, data_p, heatc_data,
                   hnet, temp0max, dhdt, dhw, flow_heat, flow>>

Line66 ==
    /\ pc = "l66"
    /\ flow_heat' = FlowHeat(flow_temp)
    /\ pc' = "l76"
    /\ UNCHANGED <<fn, args, meteo_f1, res, index, temp_data, depth_data,
                   bath_data, temp_in, depth_in, bath_in, i, data_p, heatc_data,
                   hnet, temp0max, dhdt, dhw, flow_temp, flow>>

Line76 ==
    /\ pc = "l76"
    /\ flow' = Flow(dhw, flow_heat)
    /\ pc' = "done"
    /\ UNCHANGED <<fn, args, meteo_f1, res, index, temp_data, depth_data,
                   bath_data, temp_in, depth_in, bath_in, i, data_p, heatc_data,
                   hnet, temp0max, dhdt, dhw, flow_temp, flow_heat>>

NextBudget == Line58 \/ Line59 \/ Line61 \/ Line66 \/ Line76

SpecBudget == InitBudget /\ [][NextBudget]_vars

(***************************************************************************)
(* The three components together: a run is a run of one of them            *)
(***************************************************************************)
Init == InitFlux \/ InitHeat \/ InitBudget

Next == NextFlux \/ NextHeat \/ NextBudget

Spec == Init /\ [][Next]_vars

(***************************************************************************)
(* Properties of the Flux Model (SpecFlux)                                 *)
(***************************************************************************)
Returned(f) == pc = "done" /\ fn = f

InUnitInterval(x) == FLe(I(0), x) /\ FLe(x, I(1))

\* C1: for a finite reading rad and an albedo in [0,1], swrad_in returns rad
\* itself where rad <= 5 (5, zero and negative readings included) and
\* rad*(1 - albedo) where rad > 5.
C1_AbsorbedShortwave ==
    Returned("swrad_in") =>
        \A t \in DOMAIN res :
            LET rad == args[1][t]
                albedo == args[2][t]
            IN  InUnitInterval(albedo) =>
                    /\ FLe(rad, I(5)) => res[t] = rad
                    /\ FGt(rad, I(5)) => res[t] = FMul(rad, FSub(I(1), albedo))

C1_Witness ==
    /\ Returned("swrad_in")
    /\ \E t, u \in DOMAIN res :
          /\ args[1][t] = I(5) /\ args[2][t] = F(1, -1) /\ res[t] = I(5)
          /\ args[1][u] = I(200) /\ args[2][u] = F(1, -1) /\ res[u] = I(180)

AnyArgNaN(t) == \E k \in DOMAIN args : IsNaN(args[k][t])

\* the arguments at timestamp t alone, as Series of one sample
ArgsAt(t) == [k \in DOMAIN args |-> <<args[k][t]>>]

\* C3 as stated: for every Flux Model function and timestamp t, an undefined
\* argument at t makes the result at t undefined, and with all arguments
\* defined at t the result at t is what the values at t alone give.
C3_UndefinedPropagates ==
    (pc = "done" /\ fn \in FluxFns) =>
        \A t \in DOMAIN res :
            /\ AnyArgNaN(t) => IsNaN(res[t])
            /\ ~AnyArgNaN(t) => res[t] = Apply(fn, ArgsAt(t))[1]

\* swrad_in reads albedo only where rad > 5
AlbedoUnread(t) == fn = "swrad_in" /\ FLe(args[1][t], I(5))

\* C3 amended: as C3, except that swrad_in at a timestamp with a defined
\* rad <= 5 returns rad whatever the albedo, an undefined albedo included.
C3_UndefinedPropagatesWhereRead ==
    (pc = "done" /\ fn \in FluxFns) =>
        \A t \in DOMAIN res :
            /\ (AnyArgNaN(t) /\ ~AlbedoUnread(t)) => IsNaN(res[t])
            /\ AlbedoUnread(t) => res[t] = args[1][t]
            /\ ~AnyArgNaN(t) => res[t] = Apply(fn, ArgsAt(t))[1]

C3_Witness ==
    /\ Returned("swrad_in")
    /\ \E t, u \in DOMAIN res :
          /\ args[1][t] = I(5) /\ IsNaN(args[2][t]) /\ res[t] = I(5)
          /\ args[1][u] = I(6) /\ IsNaN(args[2][u]) /\ IsNaN(res[u])

\* C6 as stated: with f1 = transfer_function(wind10, water_temp, air_temp) for
\* wind10 >= 0 and any defined temperatures, and ew > ea, latent_heat(f1, ew,
\* ea) is negative.
C6_LatentNegative ==
    Returned("main_he") =>
        \A t \in DOMAIN res :
            (FLe(I(0), args[1][t]) /\ FGt(args[4][t], args[5][t]))
                => FGt(I(0), res[t])

\* C6 amended: ... latent_heat(f1, ew, ea) is negative wherever f1 is
\* positive; wind10 >= 0 does not make f1 positive.
C6_LatentNegativeForPositiveTransfer ==
    Returned("main_he") =>
        \A t \in DOMAIN res :
            (/\ FLe(I(0), args[1][t])
             /\ FGt(args[4][t], args[5][t])
             /\ FGt(meteo_f1[t], I(0)))
                => FGt(I(0), res[t])

C6_Witness ==
    /\ Returned("main_he")
    /\ \E t, u \in DOMAIN res :
          /\ FGt(args[4][t], args[5][t])
          /\ FGt(meteo_f1[t], I(0))
          /\ FGt(I(0), res[t])
          /\ FGt(args[4][u], args[5][u])
          /\ FGt(I(0), meteo_f1[u])
          /\ FGt(res[u], I(0))

(***************************************************************************)
(* Properties of heat_content (SpecHeat)                                   *)
(***************************************************************************)
\* every temperature of row r of the profile table is undefined
RowAllNaN(df, r) == \A c \in ColumnSet(df) : IsNaN(df.col[c][r])

\* C2: heat_content returns one value per timestamp of temp_data.index, in
\* its order, and NaN for every timestamp whose temperatures (the depth-0
\* copy included) are all undefined.
C2_UndefinedProfileUndefinedHeat ==
    (pc = "done" /\ fn = "" /\ temp_in # <<>>) =>
        /\ Len(heatc_data) = Len(index)
        /\ \A r \in 1..Len(index) :
              RowAllNaN(temp_data, r) => IsNaN(heatc_data[r])

C2_Witness ==
    /\ pc = "done"
    /\ temp_in # <<>>
    /\ \E r, q \in 1..Len(index) :
          /\ RowAllNaN(temp_data, r)
          /\ IsNaN(heatc_data[r])
          /\ ~RowAllNaN(temp_data, q)
          /\ ~IsNaN(heatc_data[q])

\* C7: heat_content leaves the temperature table, the depth table and the
\* bathymetric curve with the columns and values they had when it was called
\* (swrad_in leaves rad and albedo so: Call changes no argument).
C7_InputsUnchanged ==
    (pc = "done" /\ temp_in # <<>>) =>
        /\ temp_data = temp_in
        /\ depth_data = depth_in
        /\ bath_data = bath_in

\* the sensors with a defined reading at row r, and the reading of the
\* shallowest of them
DefinedSensors(r) == {c \in ColumnSet(temp_in) : ~IsNaN(temp_in.col[c][r])}

ShallowestDefined(r) ==
    LET c == CHOOSE c \in DefinedSensors(r) :
                 \A d \in DefinedSensors(r) :
                     ~FGt(depth_in.col[c][r], depth_in.col[d][r])
    IN  temp_in.col[c][r]

\* C10 as stated: the profile heat_content integrates has a depth-0 entry
\* whose temperature is the reading of the shallowest sensor defined at that
\* timestamp.
C10_SurfaceFromShallowestDefined ==
    (temp_in # <<>> /\ i > 1 /\ ~AllTempNaN(data_p)) =>
        \E k \in 1..Len(data_p) :
            /\ data_p[k].Depth_m = I(0)
            /\ data_p[k].Temp_C = ShallowestDefined(i - 1)

\* C10 amended: the last entry of the profile is the surface entry: depth 0
\* with the reading of the 0.45 m sensor (the shallowest) when that reading
\* is defined; when it is undefined the entry has neither depth nor
\* temperature and the profile has no depth-0 entry, also when a deeper
\* sensor is defined.
C10_SurfaceFromShallowestSensor ==
    (temp_in # <<>> /\ i > 1) =>
        LET reading == temp_in.col["0.45"][i - 1]
            surface == data_p[Len(data_p)]
        IN  IF IsNaN(reading)
            THEN /\ IsNaN(surface.Depth_m)
                 /\ IsNaN(surface.Temp_C)
                 /\ \A k \in 1..Len(data_p) : data_p[k].Depth_m # I(0)
            ELSE /\ surface.Depth_m = I(0)
                 /\ surface.Temp_C = reading

C10_Witness ==
    /\ temp_in # <<>>
    /\ i > 1
    /\ IsNaN(temp_in.col["0.45"][i - 1])
    /\ ~IsNaN(temp_in.col["1.5"][i - 1])
    /\ IsNaN(data_p[Len(data_p)].Depth_m)
    /\ ~AllTempNaN(data_p)

(***************************************************************************)
(* Properties of the budget closure (SpecBudget)                           *)
(***************************************************************************)
Closed == pc = "done" /\ hnet # <<>>

IsZero(x) == IsFin(x) /\ x.m = 0

\* C4: equal stored heat at t and the previous timestamp, net flux 0 at t and
\* a non-zero inflow heat capacity at t give dH/dt = 0, R = 0 and Q = 0 at t.
C4_NoImbalanceNoFlow ==
    Closed =>
        \A t \in 2..Len(index) :
            (/\ ~IsNaN(heatc_data[t])
             /\ heatc_data[t] = heatc_data[t - 1]
             /\ IsZero(hnet[t])
             /\ IsFin(flow_heat[t])
             /\ ~IsZero(flow_heat[t]))
                => IsZero(dhdt[t]) /\ IsZero(dhw[t]) /\ IsZero(flow[t])

C4_Witness ==
    /\ Closed
    /\ \E t \in 2..Len(index) :
          /\ heatc_data[t] = I(36000)
          /\ heatc_data[t - 1] = I(36000)
          /\ IsZero(hnet[t])
          /\ IsFin(flow_heat[t])
          /\ ~IsZero(flow_heat[t])
          /\ IsZero(flow[t])

\* a curve with a depth-0 first row, depth non-decreasing and area
\* non-increasing
IsBathymetric(bath) ==
    /\ Len(bath) >= 1
    /\ bath[1].Depth_m = I(0)
    /\ \A k \in 2..Len(bath) :
          /\ ~FGt(bath[k - 1].Depth_m, bath[k].Depth_m)
          /\ ~FGt(bath[k].Area_m2, bath[k - 1].Area_m2)

\* the area the curve gives at depth 0
AreaAtDepth0(bath) == bath[1].Area_m2

\* C5: R(t) = -(dH/dt(t) - net_flux(t)) * A_max with A_max the area at depth 0
\* of the bathymetric curve, for every curve with non-decreasing depth and
\* non-increasing area.
C5_ResidualUsesSurfaceArea ==
    (dhw # <<>> /\ IsBathymetric(bath_data)) =>
        \A t \in DOMAIN dhw :
            dhw[t] = FMul(FNeg(FSub(dhdt[t], hnet[t])), AreaAtDepth0(bath_data))

C5_Witness ==
    /\ dhw # <<>>
    /\ IsBathymetric(bath_data)
    /\ Len(bath_data) = 3
    /\ bath_data[3].Area_m2 # bath_data[1].Area_m2
    /\ \E t \in DOMAIN dhw : IsFin(dhw[t]) /\ ~IsZero(dhw[t])

\* C8: where the inflow heat capacity C_in(t) is zero, Q(t) is not a finite
\* number (it is NaN or an infinity, as numpy's division leaves it); where
\* C_in(t) > 0, Q(t) has the sign of R(t).
C8_IllPosedDivisionNotClamped ==
    Closed =>
        \A t \in DOMAIN flow :
            /\ IsZero(flow_heat[t]) => ~IsFin(flow[t])
            /\ (FGt(flow_heat[t], I(0)) /\ ~IsNaN(dhw[t]))
                  => (~IsNaN(flow[t]) /\ Sign(flow[t]) = Sign(dhw[t]))

C8_Witness ==
    /\ Closed
    /\ \E t, u \in DOMAIN flow :
          /\ IsZero(flow_heat[t])
          /\ IsFin(dhw[t])
          /\ ~IsZero(dhw[t])
          /\ IsInf(flow[t])
          /\ FGt(I(0), flow_heat[u])
          /\ IsFin(flow[u])

\* the sign-preserving case of C8 is reached as well
C8_SignCaseReached ==
    /\ Closed
    /\ \E u \in DOMAIN flow :
          /\ FGt(flow_heat[u], I(0))
          /\ Sign(dhw[u]) = -1
          /\ Sign(flow[u]) = -1

\* C9: at every timestamp with a previous sample, dH/dt is the difference of
\* H over the seconds actually elapsed between the two samples; an undefined
\* H at either sample makes dH/dt, R and Q undefined there.
C9_DerivativeOverElapsedSeconds ==
    Closed =>
        \A t \in 2..Len(index) :
            /\ dhdt[t] = FDiv(FSub(heatc_data[t], heatc_data[t - 1]),
                              I(index[t] - index[t - 1]))
            /\ (IsNaN(heatc_data[t]) \/ IsNaN(heatc_data[t - 1]))
                  => (IsNaN(dhdt[t]) /\ IsNaN(dhw[t]) /\ IsNaN(flow[t]))

C9_Witness ==
    /\ Closed
    /\ \E t, u \in 2..Len(index) :
          /\ index[t] - index[t - 1] = 7200
          /\ IsFin(dhdt[t])
          /\ dhdt[t] = I(5)
          /\ IsNaN(heatc_data[u - 1])
          /\ ~IsNaN(heatc_data[u])
          /\ IsNaN(flow[u])

====
